---------------------------- MODULE Spec2Model ----------------------------
(***************************************************************************)
(* The two Zelbet ("bar") gadgets of the plookup StandardComposer,         *)
(* src/src/constraint_system/zelbet.rs:                                    *)
(*   decomposition_gadget   mixed-radix decomposition of a field element   *)
(*                          and its Horner recomposition in gates;         *)
(*   s_box_and_constraints  table substitution of one digit with the       *)
(*                          carried comparison against the modulus.        *)
(*                                                                         *)
(* A field element is a 256-bit quantity, so a value is held as the        *)
(* sequence of its base-2^16 limbs, least significant first, without       *)
(* leading zero limbs (0 is <<>>).  A 64-bit limb of the source (x.0[i])   *)
(* is four consecutive limbs of the model.  A wire's value is kept as the  *)
(* canonical integer the scalar denotes: reduce() reads it, from_raw()     *)
(* stores it (mod p).                                                      *)
(***************************************************************************)
EXTENDS Integers, Sequences, FiniteSets, TLC

Base == 2^16

\* ------------------------------------------------------------------------
\* Unsigned multi-limb arithmetic (bigint::U256 and the scalar field).
\* ------------------------------------------------------------------------

RECURSIVE Norm(_)
Norm(a) ==
    IF a = <<>> THEN a
    ELSE IF a[Len(a)] = 0 THEN Norm(SubSeq(a, 1, Len(a) - 1))
    ELSE a

FromInt(n) ==
    IF n = 0 THEN <<>>
    ELSE IF n < Base THEN <<n>>
    ELSE <<n % Base, n \div Base>>

Limb(a, i) == IF i <= Len(a) THEN a[i] ELSE 0

MaxOf(m, n) == IF m < n THEN n ELSE m

RECURSIVE LessAt(_, _, _)
LessAt(a, b, i) ==
    IF i = 0 THEN FALSE
    ELSE IF a[i] # b[i] THEN a[i] < b[i]
    ELSE LessAt(a, b, i - 1)

Less(a, b) ==
    IF Len(a) # Len(b) THEN Len(a) < Len(b) ELSE LessAt(a, b, Len(a))

RECURSIVE AddFrom(_, _, _, _)
AddFrom(a, b, i, c) ==
    IF i > MaxOf(Len(a), Len(b))
    THEN (IF c = 0 THEN <<>> ELSE <<c>>)
    ELSE LET s == Limb(a, i) + Limb(b, i) + c
         IN  <<s % Base>> \o AddFrom(a, b, i + 1, s \div Base)

AddBig(a, b) == AddFrom(a, b, 1, 0)

RECURSIVE SubFrom(_, _, _, _)
SubFrom(a, b, i, borrow) ==
    IF i > Len(a) THEN <<>>
    ELSE LET d == a[i] - Limb(b, i) - borrow
         IN  <<IF d < 0 THEN d + Base ELSE d>>
               \o SubFrom(a, b, i + 1, IF d < 0 THEN 1 ELSE 0)

\* a - b for a >= b
SubBig(a, b) == Norm(SubFrom(a, b, 1, 0))

RECURSIVE MulFrom(_, _, _, _)
MulFrom(a, m, i, c) ==
    IF i > Len(a) THEN FromInt(c)
    ELSE LET t == a[i] * m + c
         IN  <<t % Base>> \o MulFrom(a, m, i + 1, t \div Base)

\* a * m for a small multiplier m < 2^15
MulSmall(a, m) == Norm(MulFrom(a, m, 1, 0))

RECURSIVE DivAcc(_, _, _, _, _)
DivAcc(a, s, i, rem, q) ==
    IF i = 0 THEN [q |-> Norm(q), r |-> rem]
    ELSE LET t == rem * Base + a[i]
         IN  DivAcc(a, s, i - 1, t % s, <<t \div s>> \o q)

\* integer quotient and remainder of a by a small divisor 0 < s < 2^15
DivMod(a, s) == DivAcc(a, s, Len(a), 0, <<>>)

\* the value of a small number (at most two limbs)
ToInt(a) == Limb(a, 1) + Base * Limb(a, 2)

\* ------------------------------------------------------------------------
\* The scalar field (dusk_bls12_381::BlsScalar) and the constant tables
\* (crate::plookup::table::hash_tables).
\* ------------------------------------------------------------------------

\* the scalar field's modulus,
\* 0x73eda753299d7d483339d80809a1d80553bda402fffe5bfeffffffff00000001
P ==
    <<1, 0, 65535, 65535, 23550, 65534, 41986, 21437,
      55301, 2465, 55304, 13113, 32072, 10653, 42835, 29677>>

\* a mod p for a < 2^15 * p: multiples m*p are taken off, m halving from 2^14
RECURSIVE ModPBy(_, _)
ModPBy(a, m) ==
    IF m = 0 THEN a
    ELSE LET pm == MulSmall(P, m)
         IN  IF Less(a, pm) THEN ModPBy(a, m \div 2)
             ELSE ModPBy(SubBig(a, pm), m)

ModP(a) == IF Less(a, P) THEN a ELSE ModPBy(a, 2^14)

IsSmall(a) == Len(a) = 0 \/ (Len(a) = 1 /\ a[1] < 2^15)

\* field addition and multiplication; the gadgets only ever multiply by a
\* radix or by the position counter, so one factor is below 2^15
FieldAdd(a, b) == ModP(AddBig(a, b))

FieldMul(a, b) ==
    IF IsSmall(b) THEN ModP(MulSmall(a, ToInt(b)))
    ELSE ModP(MulSmall(b, ToInt(a)))

\* BlsScalar::from_raw: the scalar whose canonical value is the raw integer
FromRaw(a) == ModP(a)

\* BlsScalar::reduce: the canonical integer of a scalar, as its limbs
Reduce(v) == v

\* the radices s_i; decomposing -3 with them gives the vector the source's
\* test_decomposition expects
DECOMPOSITION_S_I ==
    <<693, 696, 694, 668, 679, 695, 691, 693, 700, 688, 700, 694, 701, 694,
      699, 701, 701, 701, 695, 698, 697, 703, 702, 691, 688, 703, 679>>

\* the source indexes its arrays from 0
S_I(k) == DECOMPOSITION_S_I[k + 1]

\* u256((BlsScalar(a.0) * INVERSES_S_I[k]).0).  BlsScalar(a.0) takes a as
\* the Montgomery representation, so it denotes a / R; INVERSES_S_I[k]
\* denotes 1 / s_k; the product denotes a / (R * s_k), and its
\* representation, read through .0, is a / s_k in the field: the one y in
\* [0, p) with y * s_k = a (mod p).  That y is (a + t*p) / s_k for the t in
\* [0, s_k) that makes the numerator a multiple of s_k (t = 0 exactly when
\* s_k divides a).
MulByInverse(a, k) ==
    LET s  == S_I(k)
        ra == DivMod(a, s).r
        rp == DivMod(P, s).r
        t  == CHOOSE u \in 0..(s - 1) : (ra + u * rp) % s = 0
    IN  ModP(DivMod(AddBig(a, MulSmall(P, t)), s).q)

\* ------------------------------------------------------------------------
\* The composer: its wire assignment and its gates.
\* ------------------------------------------------------------------------

VARIABLES
    variables,   \* StandardComposer.variables: wire -> value; a wire is its index
    gates,       \* the gates added so far, in order
    ret,         \* what the last gadget call was given and what it returned
    pc,          \* the caller: "ready", or "aborted" once a call has panicked
    calls,       \* the number of gadget calls made
    chain        \* the caller's scan of one element's digits (SpecScan)

vars == <<variables, gates, ret, pc, calls, chain>>

\* self.zero_var, allocated by the composer's constructor
zero_var == 1

\* add_input on a composer cs = [variables, gates]: a fresh wire
AddInput(cs, v) ==
    [cs  |-> [cs EXCEPT !.variables = Append(cs.variables, v)],
     var |-> Len(cs.variables) + 1]

\* big_mul(1, a, b, Some((1, d)), 0, 0): a fresh wire holding a*b + d and the
\* gate that ties it to a, b and d
BigMul(cs, a, b, d) ==
    LET o == FieldAdd(FieldMul(cs.variables[a], cs.variables[b]),
                      cs.variables[d])
        r == AddInput(cs, o)
    IN  [cs  |-> [r.cs EXCEPT !.gates =
                     Append(r.cs.gates,
                            [kind |-> "big_mul", a |-> a, b |-> b, d |-> d,
                             o |-> r.var])],
         var |-> r.var]

\* constrain_to_constant(a, constant, 0)
ConstrainToConstant(cs, a, constant) ==
    [cs EXCEPT !.gates =
        Append(cs.gates, [kind |-> "constant", a |-> a, value |-> constant])]

\* plookup_gate(a, b, c, Some(d), 0)
PlookupGate(cs, a, b, c, d) ==
    [cs EXCEPT !.gates =
        Append(cs.gates,
               [kind |-> "lookup", a |-> a, b |-> b, c |-> c, d |-> d])]

\* whether the assignment satisfies a gate (lookup gates are the backend's)
Satisfied(vs, g) ==
    CASE g.kind = "big_mul" ->
            vs[g.o] = FieldAdd(FieldMul(vs[g.a], vs[g.b]), vs[g.d])
      [] g.kind = "constant" -> vs[g.a] = g.value
      [] OTHER -> TRUE

\* ------------------------------------------------------------------------
\* decomposition_gadget
\* ------------------------------------------------------------------------

\* Remainder taking the remainder by the next radix, s_(k+1)
RemainderNextRadix(intermediate, k) ==
    IF k < 26 THEN FromInt(DivMod(intermediate, S_I(k + 1)).r)
    ELSE intermediate

\* remainder = intermediate % s_k for k < 26, the rest itself for k = 26
Remainder(intermediate, k) ==
    IF k < 26 THEN FromInt(DivMod(intermediate, S_I(k)).r)
    ELSE intermediate

\* NextIntermediate without the subtraction of the remainder
NextIntermediateKeepsRemainder(intermediate, remainder, k) ==
    IF k < 26 THEN MulByInverse(intermediate, k)
    ELSE intermediate

\* intermediate = (intermediate - remainder) * INVERSES_S_I[k]
NextIntermediate(intermediate, remainder, k) ==
    IF k < 26 THEN MulByInverse(SubBig(intermediate, remainder), k)
    ELSE intermediate

\* (0..27).for_each at step st.k, on the loop's state
\* st = [k, intermediate, cs, nibbles]
RECURSIVE NibbleLoop(_)
NibbleLoop(st) ==
    IF st.k = 27 THEN st
    ELSE LET remainder == Remainder(st.intermediate, st.k)
             r == AddInput(st.cs, FromRaw(remainder))
         IN  NibbleLoop(
                [k            |-> st.k + 1,
                 intermediate |-> NextIntermediate(st.intermediate,
                                                   remainder, st.k),
                 cs           |-> r.cs,
                 nibbles      |-> Append(st.nibbles, r.var)])

\* RadixWire one radix too far: s[26 - k]
RadixWireOffByOne(s_i_decomposition, k) == s_i_decomposition[(26 - k) + 1]

\* the radix wire the k-th composition step multiplies by, k = 0..25
RadixWire(s_i_decomposition, k) == s_i_decomposition[(25 - k) + 1]

\* the digit wire the k-th composition step adds, k = 0..25
DigitWire(nibbles, k) == nibbles[(25 - k) + 1]

\* the composition, step st.k = 0 (the first big_mul) and (1..26).for_each:
\* acc = acc * s[25 - k] + nibbles[25 - k], on st = [k, acc, cs]
RECURSIVE HornerLoop(_, _, _)
HornerLoop(st, nibbles, s_i_decomposition) ==
    IF st.k = 26 THEN st
    ELSE LET r == BigMul(st.cs, st.acc, RadixWire(s_i_decomposition, st.k),
                         DigitWire(nibbles, st.k))
         IN  HornerLoop([k |-> st.k + 1, acc |-> r.var, cs |-> r.cs],
                        nibbles, s_i_decomposition)

decomposition_gadget(cs, x, s_i_decomposition) ==
    LET reduced_input == Reduce(cs.variables[x])
        n    == NibbleLoop([k |-> 0, intermediate |-> reduced_input,
                            cs |-> cs, nibbles |-> <<>>])
        \* the first step starts from nibbles[26]
        h    == HornerLoop([k |-> 0, acc |-> n.nibbles[27], cs |-> n.cs],
                           n.nibbles, s_i_decomposition)
        done == ConstrainToConstant(h.cs, h.acc, cs.variables[x])
    IN  [cs |-> done, nibbles |-> n.nibbles, acc |-> h.acc]

\* ------------------------------------------------------------------------
\* s_box_and_constraints
\* ------------------------------------------------------------------------

\* the table's domain threshold
T == 659

\* the substitution table, 659 rows.  The source's test fixes row 1 as 187;
\* the other rows stand for the table's content, a permutation of 0..658.
SBOX_U256(i) == (187 * i) % 659

\* the modulus's own digits in the radix system: p = sum of
\* BLS_SCALAR_REAL[k] * s_0 * ... * s_(k-1)
BLS_SCALAR_REAL ==
    <<661, 660, 673, 663, 674, 682, 687, 683, 669, 684, 672, 666, 680, 662,
      686, 668, 661, 678, 692, 686, 689, 660, 690, 687, 683, 674, 678>>

\* value.0[0]: the least significant 64-bit limb
Low64(value) ==
    Norm(SubSeq(value, 1, IF Len(value) < 4 THEN Len(value) ELSE 4))

\* InTable comparing the whole value, not its low limb
InTableWholeValue(value) == Less(value, FromInt(T))

\* value.0[0] < 659
InTable(value) == Less(Low64(value), FromInt(T))

\* BLS_SCALAR_REAL[27 - counter as usize]: the subtraction underflows for a
\* counter above 27 and the index 27 is past the array for counter 0; both
\* panic
RefIndexInBounds(counter) == counter <= 27 /\ 27 - counter < 27

\* BLS_SCALAR_REAL[27 - counter as usize].0[0]
RefDigit(counter) == FromInt(BLS_SCALAR_REAL[(27 - counter) + 1])

\* TableBranch without conditional_new = true
TableBranchKeepsConditional(cs, value, conditional, one) ==
    LET r == AddInput(cs, FromRaw(FromInt(SBOX_U256(ToInt(Low64(value))))))
    IN  [cs |-> r.cs, y_i |-> r.var, c_i |-> one,
         conditional_new |-> conditional, z_i |-> zero_var]

\* the branch of value.0[0] < 659
TableBranch(cs, value, conditional, one) ==
    LET r == AddInput(cs, FromRaw(FromInt(SBOX_U256(ToInt(Low64(value))))))
    IN  [cs |-> r.cs, y_i |-> r.var, c_i |-> one, conditional_new |-> TRUE,
         z_i |-> zero_var]

\* PassBranch taking a tie for "greater" whatever the inherited conditional
PassBranchTieIsGreater(cs, input, value, counter, conditional, one, two) ==
    LET low == Low64(value)
        ref == RefDigit(counter)
    IN  [cs  |-> cs, y_i |-> input, z_i |-> one,
         c_i |-> IF Less(low, ref) THEN one ELSE two,
         conditional_new |-> IF Less(low, ref) THEN conditional ELSE TRUE]

\* the else branch: the digit passes, and is compared with the modulus's
PassBranch(cs, input, value, counter, conditional, one, two) ==
    LET low == Low64(value)
        ref == RefDigit(counter)
    IN  [cs  |-> cs, y_i |-> input, z_i |-> one,
         c_i |-> IF Less(ref, low) THEN two
                 ELSE IF low = ref
                      THEN (IF conditional = TRUE THEN two ELSE zero_var)
                      ELSE one,
         conditional_new |->
                 IF Less(ref, low) THEN TRUE
                 ELSE IF low = ref /\ conditional = TRUE THEN TRUE
                 ELSE conditional]

\* the gadget: [panic |-> TRUE, cs] when the reference digit's index is out
\* of bounds, else the composer after the call and the four results
s_box_and_constraints(cs, input, counter, conditional, one, two) ==
    LET value == Reduce(cs.variables[input])
    IN  IF ~InTable(value) /\ ~RefIndexInBounds(counter)
        THEN [panic |-> TRUE, cs |-> cs]
        ELSE LET b == IF InTable(value)
                      THEN TableBranch(cs, value, conditional, one)
                      ELSE PassBranch(cs, input, value, counter, conditional,
                                      one, two)
                 scaled_z_i ==
                     AddInput(b.cs, FieldMul(FromInt(counter),
                                             b.cs.variables[b.z_i]))
             IN  [panic |-> FALSE,
                  cs |-> PlookupGate(scaled_z_i.cs, input, scaled_z_i.var,
                                     b.y_i, b.c_i),
                  y_i |-> b.y_i, c_i |-> b.c_i,
                  conditional_new |-> b.conditional_new, z_i |-> b.z_i,
                  scaled_z_i |-> scaled_z_i.var]

\* ------------------------------------------------------------------------
\* A caller of s_box_and_constraints, as in test_s_box_and_constraints: it
\* allocates its wires, then calls the gadget on any of them.
\* ------------------------------------------------------------------------

\* gadget calls per run
MaxCalls == 1

\* 2^64, the weight of the second 64-bit limb
TwoTo64 == <<0, 0, 0, 0, 1>>

\* the values of the caller's wires: digits in and above the table's domain,
\* around the reference digits 678, 674 and 661, values that differ from a
\* digit in their upper limbs only, and -1
SBoxSamples ==
    <<FromInt(0), FromInt(5), FromInt(658), FromInt(659), FromInt(660),
      FromInt(661), FromInt(662), FromInt(673), FromInt(674), FromInt(675),
      FromInt(678), FromInt(700),
      AddBig(TwoTo64, FromInt(5)), AddBig(TwoTo64, FromInt(659)),
      AddBig(TwoTo64, FromInt(674)), AddBig(TwoTo64, FromInt(700)),
      SubBig(P, FromInt(1))>>

\* the wires the test allocates for the tags "one" and "two"
OneWire == 2
TwoWire == 3

InitWires == <<FromInt(0), FromInt(1), FromInt(2)>> \o SBoxSamples

\* the counters a caller passes: in range, and mismatched (0, above 27)
Counters == {0, 1, 2, 27, 28}

\* the wire a caller passes as "one": the tag's, or (as in
\* test_s_box_and_constraints_fails) another
OneWires ==
    {OneWire, CHOOSE w \in 1..Len(InitWires) : InitWires[w] = FromInt(700)}

NoChain == [on |-> FALSE]

Init ==
    /\ variables = InitWires
    /\ gates = <<>>
    /\ ret = [op |-> "none"]
    /\ pc = "ready"
    /\ calls = 0
    /\ chain = NoChain

\* the record of a call: its arguments, the composer's size before it, and
\* its results
SBoxRet(cs, input, counter, conditional, one, two, r) ==
    IF r.panic
    THEN [op |-> "s_box", input |-> input, counter |-> counter,
          conditional |-> conditional, one |-> one, two |-> two,
          n0 |-> Len(cs.variables), g0 |-> Len(cs.gates), panic |-> TRUE]
    ELSE [op |-> "s_box", input |-> input, counter |-> counter,
          conditional |-> conditional, one |-> one, two |-> two,
          n0 |-> Len(cs.variables), g0 |-> Len(cs.gates), panic |-> FALSE,
          y_i |-> r.y_i, c_i |-> r.c_i,
          conditional_new |-> r.conditional_new, z_i |-> r.z_i]

\* one call of the gadget; a panic ends the run
SBoxCall ==
    /\ pc = "ready"
    /\ calls < MaxCalls
    /\ \E input \in 1..Len(variables), counter \in Counters,
          conditional \in BOOLEAN, one \in OneWires :
          LET cs == [variables |-> variables, gates |-> gates]
              r  == s_box_and_constraints(cs, input, counter, conditional,
                                          one, TwoWire)
          IN  /\ variables' = r.cs.variables
              /\ gates' = r.cs.gates
              /\ ret' = SBoxRet(cs, input, counter, conditional, one,
                                TwoWire, r)
              /\ pc' = IF r.panic THEN "aborted" ELSE "ready"
    /\ calls' = calls + 1
    /\ UNCHANGED chain

Next == SBoxCall

Spec == Init /\ [][Next]_vars

\* ------------------------------------------------------------------------
\* Properties of one s_box_and_constraints call
\* ------------------------------------------------------------------------

\* the canonical value of the last call's input wire
InputValue == variables[ret.input]

\* a three-way comparison of whole canonical values
RefOf(counter) == FromInt(BLS_SCALAR_REAL[(27 - counter) + 1])

\* C2: a call on a wire whose canonical value is below T = 659 returns, for
\* every counter and either inherited conditional, y = a newly allocated wire
\* holding table[v], c = the caller's "one" wire, conditional_out = TRUE and
\* z = the zero wire.
TableBranchResult ==
    (ret.op = "s_box" /\ Less(InputValue, FromInt(T)))
        => /\ ret.panic = FALSE
           /\ ret.y_i > ret.n0
           /\ variables[ret.y_i] = FromInt(SBOX_U256(ToInt(InputValue)))
           /\ ret.c_i = ret.one
           /\ ret.conditional_new = TRUE
           /\ ret.z_i = zero_var

\* a table-branch call made with a mismatched counter, the inherited
\* conditional false and a "one" wire that is not the tag's
TableBranchWitness ==
    /\ ret.op = "s_box"
    /\ InputValue = FromInt(658)
    /\ ret.counter = 0
    /\ ret.conditional = FALSE
    /\ ret.one # OneWire
    /\ ret.y_i = ret.n0 + 1

\* C3: a call on a wire whose canonical value is at least T, with a counter
\* in 1..27, returns y = the input wire, z = the "one" wire and (c,
\* conditional_out) by the comparison of v with the reference digit R at
\* index 27 - counter: v > R gives ("two", TRUE); v = R gives ("two", TRUE)
\* when the inherited conditional is true and (zero wire, FALSE) when it is
\* false; v < R gives ("one", the inherited conditional).
PassthroughResult ==
    (/\ ret.op = "s_box"
     /\ ~Less(InputValue, FromInt(T))
     /\ ret.counter \in 1..27)
        => /\ ret.panic = FALSE
           /\ ret.y_i = ret.input
           /\ ret.z_i = ret.one
           /\ LET R == RefOf(ret.counter)
              IN  IF Less(R, InputValue)
                  THEN ret.c_i = ret.two /\ ret.conditional_new = TRUE
                  ELSE IF InputValue = R
                  THEN IF ret.conditional
                       THEN ret.c_i = ret.two /\ ret.conditional_new = TRUE
                       ELSE ret.c_i = zero_var /\ ret.conditional_new = FALSE
                  ELSE ret.c_i = ret.one
                       /\ ret.conditional_new = ret.conditional

\* C8: every call returns, whatever the digit, the counter and the inherited
\* conditional: none panics.
NoInternalFailure ==
    ret.op = "s_box" => (ret.panic = FALSE /\ pc = "ready")

\* C9: every call appends exactly one gate, the lookup gate on (v, aux, y, c)
\* with aux a newly allocated wire holding counter * value(z); it allocates 2
\* wires in the table branch and 1 in the passthrough branch and leaves every
\* earlier wire's value as it was.
OneLookupGatePerCall ==
    [][ret'.op = "s_box" =>
          /\ ret'.panic = FALSE
          /\ Len(gates') = Len(gates) + 1
          /\ SubSeq(gates', 1, Len(gates)) = gates
          /\ SubSeq(variables', 1, Len(variables)) = variables
          /\ LET g   == gates'[Len(gates')]
                 aux == Len(variables')
             IN  /\ g = [kind |-> "lookup", a |-> ret'.input, b |-> aux,
                         c |-> ret'.y_i, d |-> ret'.c_i]
                 /\ variables'[aux] =
                        FieldMul(FromInt(ret'.counter), variables'[ret'.z_i])
                 /\ IF ret'.z_i = zero_var
                    THEN /\ Len(variables') = Len(variables) + 2
                         /\ variables'[aux] = FromInt(0)
                    ELSE /\ Len(variables') = Len(variables) + 1
                         /\ ret'.z_i = ret'.one]_vars

\* the composer as it was before the last call
Before ==
    [variables |-> SubSeq(variables, 1, ret.n0),
     gates     |-> SubSeq(gates, 1, ret.g0)]

\* what C10 compares of two calls' outcomes
SameOutcome(r) ==
    /\ r.panic = ret.panic
    /\ ~ret.panic =>
          /\ (r.z_i = zero_var) = (ret.z_i = zero_var)
          /\ r.c_i = ret.c_i
          /\ r.conditional_new = ret.conditional_new
          /\ ret.z_i = zero_var =>
                r.cs.variables[r.y_i] = variables[ret.y_i]

\* C10: the call decides from the least significant 64-bit limb alone: the
\* same call on any other wire whose value is equal modulo 2^64 takes the
\* same branch and returns the same c, the same conditional_out and, in the
\* table branch, the same substituted value; a value of 2^64 or more whose
\* low limb is below T is substituted as table[v mod 2^64].
LowLimbDecides ==
    ret.op = "s_box" =>
        /\ \A w \in 1..ret.n0 :
              Low64(variables[w]) = Low64(InputValue) =>
                  SameOutcome(s_box_and_constraints(
                      Before, w, ret.counter, ret.conditional, ret.one,
                      ret.two))
        /\ (Len(InputValue) > 4 /\ Less(Low64(InputValue), FromInt(T))) =>
              /\ ret.panic = FALSE
              /\ ret.y_i # ret.input
              /\ variables[ret.y_i] =
                     FromInt(SBOX_U256(ToInt(Low64(InputValue))))

\* a call on 2^64 + 5, whose low limb 5 is in the table's domain
LowLimbWitness ==
    /\ ret.op = "s_box"
    /\ InputValue = AddBig(TwoTo64, FromInt(5))
    /\ ret.panic = FALSE
    /\ variables[ret.y_i] = FromInt(SBOX_U256(5))

\* ------------------------------------------------------------------------
\* The caller's scan of one element: 27 calls, one per digit, the counter
\* going down from 27 and each call given the conditional the previous one
\* returned.
\* ------------------------------------------------------------------------

\* calls of one scan that may be given a mismatched counter
MaxMismatched == 1

\* the digit sequences scanned: the modulus's digits up to position k, the
\* digit at k lowered or raised by one, and below k digits that all tie with,
\* fall below, or are substituted instead of being compared with the
\* modulus's
ScanModes == {"lowered", "raised"}
ScanTails == {"equal", "less", "table"}

ScanDigit(k, mode, tail, i) ==
    LET R == BLS_SCALAR_REAL[i + 1]
    IN  IF i < k THEN R
        ELSE IF i = k THEN (IF mode = "lowered" THEN R - 1 ELSE R + 1)
        ELSE IF tail = "equal" THEN R
        ELSE IF tail = "less" THEN R - 1
        ELSE 5

InitScan ==
    \E k \in 0..26, mode \in ScanModes, tail \in ScanTails,
       start \in BOOLEAN :
        /\ variables = <<FromInt(0), FromInt(1), FromInt(2)>>
                       \o [i \in 1..27 |->
                             FromInt(ScanDigit(k, mode, tail, i - 1))]
        /\ gates = <<>>
        /\ ret = [op |-> "none"]
        /\ pc = "ready"
        /\ calls = 0
        /\ chain = [on |-> TRUE, k |-> k, mode |-> mode, start |-> start,
                    digits |-> [i \in 1..27 |-> 3 + i],
                    pos |-> 0, conditional |-> start, mismatched |-> 0]

\* the counter of the call at position pos (0 is the first), or a wrong one
ScanCounters(pos, mismatched) ==
    {27 - pos} \cup (IF mismatched < MaxMismatched THEN {0, 28} ELSE {})

\* the scan's next call
ScanStep ==
    /\ pc = "ready"
    /\ chain.on
    /\ chain.pos < 27
    /\ \E counter \in ScanCounters(chain.pos, chain.mismatched) :
          LET cs    == [variables |-> variables, gates |-> gates]
              input == chain.digits[chain.pos + 1]
              r     == s_box_and_constraints(cs, input, counter,
                                             chain.conditional, OneWire,
                                             TwoWire)
              wrong == IF counter = 27 - chain.pos THEN 0 ELSE 1
          IN  /\ variables' = r.cs.variables
              /\ gates' = r.cs.gates
              /\ ret' = SBoxRet(cs, input, counter, chain.conditional,
                                OneWire, TwoWire, r)
              /\ pc' = IF r.panic THEN "aborted" ELSE "ready"
              /\ chain' = IF r.panic
                          THEN [chain EXCEPT
                                  !.mismatched = chain.mismatched + wrong]
                          ELSE [chain EXCEPT
                                  !.pos = chain.pos + 1,
                                  !.conditional = r.conditional_new,
                                  !.mismatched = chain.mismatched + wrong]
    /\ calls' = calls + 1

NextScan == ScanStep

SpecScan == InitScan /\ [][NextScan]_vars

\* C4: once a call of the chain has returned conditional = TRUE, every later
\* call of the chain returns conditional = TRUE, whatever digit and counter
\* it is given.
LatchedCallsReturnTrue ==
    [][(/\ chain.on
        /\ ret.op = "s_box"
        /\ ret.panic = FALSE
        /\ ret.conditional_new = TRUE
        /\ calls' = calls + 1)
          => (ret'.panic = FALSE /\ ret'.conditional_new = TRUE
              /\ chain'.conditional = TRUE)]_vars

\* what holds of the chain: the threaded conditional never goes from true
\* back to false, and a later call that returns, returns TRUE
ConditionalLatch ==
    [][(chain.on /\ chain.conditional = TRUE)
          => /\ chain'.conditional = TRUE
             /\ (calls' = calls + 1 /\ ret'.panic = FALSE)
                   => ret'.conditional_new = TRUE]_vars

\* C5: in a scan started with conditional = FALSE on the modulus's digits
\* with the digit at position k lowered by one, counters going down from 27,
\* every call up to and including position k returns conditional = FALSE, and
\* the call at position k returns the "one" wire as c.
LoweredScanStaysFalse ==
    (/\ chain.on
     /\ chain.mode = "lowered"
     /\ chain.start = FALSE
     /\ chain.mismatched = 0
     /\ chain.pos \in 1..(chain.k + 1))
        => /\ ret.op = "s_box"
           /\ ret.panic = FALSE
           /\ ret.input = chain.digits[chain.pos]
           /\ ret.conditional_new = FALSE
           /\ chain.conditional = FALSE
           /\ chain.pos = chain.k + 1 => ret.c_i = OneWire

\* the lowered digit is the last one scanned, after 26 ties
LoweredScanWitness ==
    /\ chain.on
    /\ chain.mode = "lowered"
    /\ chain.start = FALSE
    /\ chain.mismatched = 0
    /\ chain.k = 26
    /\ chain.pos = 27
    /\ ret.c_i = OneWire
    /\ ret.conditional_new = FALSE

\* ------------------------------------------------------------------------
\* A caller of decomposition_gadget, as in test_decomposition: it allocates
\* "one" and the 27 radix wires, then an input wire, and decomposes it.
\* ------------------------------------------------------------------------

\* the weight of digit k: s_0 * ... * s_(k-1)
RECURSIVE WeightFrom(_, _)
WeightFrom(st, k) ==
    IF st.i = k THEN st.w
    ELSE WeightFrom([i |-> st.i + 1, w |-> MulSmall(st.w, S_I(st.i))], k)

Weight(k) == WeightFrom([i |-> 0, w |-> FromInt(1)], k)

\* inputs d * Weight(k) + e are taken for e up to MaxOffset either way
MaxOffset == 1

\* inputs p - j are taken for j up to MaxBelow
MaxBelow == 3

\* the largest digit at position k of a value below p
TopDigit(k) == IF k < 26 THEN S_I(k) - 1 ELSE BLS_SCALAR_REAL[27]

\* the field elements decomposed: around each digit's weight and around the
\* largest multiple of it, and just below the modulus
DecompositionInputs ==
    LET Around(v) ==
            {AddBig(v, FromInt(e)) : e \in 0..MaxOffset}
            \cup {SubBig(v, FromInt(e)) :
                     e \in {f \in 1..MaxOffset : ~Less(v, FromInt(f))}}
        Marks == UNION {{Weight(k), MulSmall(Weight(k), TopDigit(k))} :
                           k \in 0..26}
    IN  {SubBig(P, FromInt(j)) : j \in 1..MaxBelow}
        \cup {x \in UNION {Around(v) : v \in Marks} : Less(x, P)}

\* the radix wires: s_i_decomposition[k] is wire 3 + k
RadixWires == [i \in 1..27 |-> 2 + i]

InitDecomposition ==
    /\ variables = <<FromInt(0), FromInt(1)>>
                   \o [i \in 1..27 |-> FromInt(DECOMPOSITION_S_I[i])]
    /\ gates = <<>>
    /\ ret = [op |-> "none"]
    /\ pc = "ready"
    /\ calls = 0
    /\ chain = NoChain

\* composer.add_input(x) by the caller
AllocateInput ==
    /\ pc = "ready"
    /\ \E x \in DecompositionInputs :
          LET r == AddInput([variables |-> variables, gates |-> gates], x)
          IN  /\ variables' = r.cs.variables
              /\ ret' = [op |-> "add_input", x |-> r.var]
    /\ pc' = "allocated"
    /\ UNCHANGED <<gates, calls, chain>>

\* composer.decomposition_gadget(x, s_i_decomposition) on the wire allocated
Decompose ==
    /\ pc = "allocated"
    /\ LET cs == [variables |-> variables, gates |-> gates]
           r  == decomposition_gadget(cs, ret.x, RadixWires)
       IN  /\ variables' = r.cs.variables
           /\ gates' = r.cs.gates
           /\ ret' = [op |-> "decomposition", x |-> ret.x,
                      n0 |-> Len(variables), g0 |-> Len(gates),
                      nibbles |-> r.nibbles, acc |-> r.acc]
    /\ pc' = "done"
    /\ calls' = calls + 1
    /\ UNCHANGED chain

NextDecomposition == AllocateInput \/ Decompose

SpecDecomposition == InitDecomposition /\ [][NextDecomposition]_vars

\* the value of the k-th returned digit, k = 0..26
Digit(k) == variables[ret.nibbles[k + 1]]

\* the Horner recomposition of the returned digits: D[26]*S[25] + D[25],
\* then acc*S[25-k] + D[25-k] for k = 1..25, in the field
RECURSIVE RecomposeFrom(_)
RecomposeFrom(st) ==
    IF st.k = 0 THEN st.acc
    ELSE RecomposeFrom(
            [k   |-> st.k - 1,
             acc |-> FieldAdd(FieldMul(st.acc, FromInt(S_I(st.k - 1))),
                              Digit(st.k - 1))])

Recomposed == RecomposeFrom([k |-> 26, acc |-> Digit(26)])

\* C1: the digits returned for x recompose to x, and the gadget's last gate,
\* the equality of the final accumulator with x's value, is satisfied (as
\* are its 26 composition gates).
RoundTrip ==
    ret.op = "decomposition" =>
        /\ Recomposed = variables[ret.x]
        /\ Len(gates) = ret.g0 + 27
        /\ gates[Len(gates)] = [kind |-> "constant", a |-> ret.acc,
                                value |-> variables[ret.x]]
        /\ \A i \in (ret.g0 + 1)..Len(gates) : Satisfied(variables, gates[i])

\* -3 has been decomposed into the vector the source's test expects
RoundTripWitness ==
    /\ ret.op = "decomposition"
    /\ variables[ret.x] = SubBig(P, FromInt(3))
    /\ [k \in 1..27 |-> ToInt(Digit(k - 1))] =
          <<658, 660, 673, 663, 674, 682, 687, 683, 669, 684, 672, 666, 680,
            662, 686, 668, 661, 678, 692, 686, 689, 660, 690, 687, 683, 674,
            678>>
    /\ variables[ret.acc] = variables[ret.x]

\* C6: each of the first 26 digits is below its radix, and the 27th is below
\* p divided by the product of the 26 radices: D[26] * s_0*...*s_25 < p.
DigitBound ==
    ret.op = "decomposition" =>
        /\ \A k \in 0..25 : Less(Digit(k), FromInt(S_I(k)))
        /\ IsSmall(Digit(26))
        /\ Less(MulSmall(Weight(26), ToInt(Digit(26))), P)

\* the first 26 digits are all the largest their radices allow
DigitBoundWitness ==
    /\ ret.op = "decomposition"
    /\ \A k \in 0..25 : Digit(k) = FromInt(S_I(k) - 1)
    /\ Digit(26) = FromInt(BLS_SCALAR_REAL[27] - 1)

\* floor(x / (s_0 * ... * s_(k-1))), by integer division
RECURSIVE QuotientFrom(_, _)
QuotientFrom(st, k) ==
    IF st.i = k THEN st.v
    ELSE QuotientFrom([i |-> st.i + 1, v |-> DivMod(st.v, S_I(st.i)).q], k)

Quotient(x, k) == QuotientFrom([i |-> 0, v |-> x], k)

\* C7: at every step the product with the inverse is the integer quotient
\* (v_k - r_k) / s_k, so the digits are x's integer mixed-radix digits:
\* D[k] = floor(x / (s_0*...*s_(k-1))) mod s_k for k < 26 and
\* D[26] = floor(x / (s_0*...*s_25)); for x < s_0, D[0] = x and the rest 0.
ExactDivision ==
    ret.op = "decomposition" =>
        LET x == variables[ret.x]
        IN  /\ \A k \in 0..25 :
                  LET v == Quotient(x, k)
                      r == FromInt(DivMod(v, S_I(k)).r)
                  IN  /\ Digit(k) = r
                      /\ MulByInverse(SubBig(v, r), k) = Quotient(x, k + 1)
            /\ Digit(26) = Quotient(x, 26)
            /\ Less(x, FromInt(S_I(0))) =>
                  /\ Digit(0) = x
                  /\ \A k \in 1..26 : Digit(k) = FromInt(0)

\* 1 has been decomposed into the digit 1 and 26 zeros
ExactDivisionWitness ==
    /\ ret.op = "decomposition"
    /\ variables[ret.x] = FromInt(1)
    /\ Digit(0) = FromInt(1)
    /\ \A k \in 1..26 : Digit(k) = FromInt(0)

=============================================================================
